---- MODULE Spec2Model ----
(***************************************************************************)
(* Attendance server (server/index.js): the classroom registry and the     *)
(* attendance-session engine as a state machine over the document store.   *)
(* Every request handler is an async function; each `await` of a store     *)
(* operation is a point where other handlers may run.  One action of the   *)
(* model is one store operation together with the synchronous handler code *)
(* around it: the code from the previous `await` (or from the arrival of   *)
(* the request) up to the operation, and the code after it up to the next  *)
(* `await` or the reply.                                                   *)
(*                                                                         *)
(* Not modelled: the fields no handler reads back to take a decision       *)
(* (Classroom.description and createdAt, AttendanceSession.startTime,      *)
(* AttendanceRecord.markedAt).  The body of a successful response is       *)
(* modelled for the routes that read documents.                            *)
(*                                                                         *)
(* The earlier server (its attendance route) and the client (the restore   *)
(* of a stored login in store/authStore.ts, the polling of the classroom   *)
(* view in screens/ClassroomScreen.tsx) have sections and specifications   *)
(* of their own.                                                           *)
(***************************************************************************)
EXTENDS Integers, Sequences, FiniteSets, TLC

\* ------------------------------------------------------------------ bounds
MaxClassrooms == 2      \* classrooms ever created in a run
MaxSessions == 2        \* attendance sessions ever started in a run
MaxTime == 1            \* the clock runs 0..MaxTime
MaxRequests == 5        \* requests received in a run
MaxMarks == 3           \* marks accepted by the earlier server in a run

\* --------------------------------------------------------- the environment
Slots == {1, 2}                      \* handlers that can be in flight together
Codes == {"AAAAAA", "BBBBBB"}        \* values generateJoinCode can return
Tokens == {"valid", "none", "invalid"}
Names == {<<"M">>, <<" ">>}          \* classroom names a request can carry

\* the e-mail address c@b.c, as its characters
Mail(c) == <<c, "@", "b", ".", "c">>

\* e-mail strings a request can carry: well-formed, with an upper-case
\* letter, with surrounding whitespace, without a domain suffix, blank, empty
Emails == {Mail("a"), Mail("A"), <<" ">> \o Mail("a") \o <<" ">>,
           <<"a", "@", "b">>, <<" ">>, <<>>}

\* passwords a request can carry: two of six characters, a short one, none
Passwords == {<<"p", "p", "p", "p", "p", "p">>, <<"q", "q", "q", "q", "q", "q">>,
              <<"p">>, <<>>}

\* role strings a request can carry
RoleInputs == {"admin", "student", "teacher"}

\* String.prototype.toLowerCase on these characters
LowerChar(c) == IF c = "A" THEN "a" ELSE c
ToLower(s) == [i \in 1..Len(s) |-> LowerChar(s[i])]

\* /^[^\s@]+@[^\s@]+\.[^\s@]+$/.test(s)
EmailFormatOk(s) ==
  /\ \A i \in 1..Len(s) : s[i] # " "
  /\ \E i \in 2..Len(s) :
       /\ s[i] = "@"
       /\ \A k \in 1..Len(s) : s[k] = "@" => k = i
       /\ \E j \in (i + 2)..(Len(s) - 1) : s[j] = "."

\* bcrypt.hash and bcrypt.compare
Hash(p) == <<"$2b$10$">> \o p
Compare(p, h) == h = Hash(p)

\* endTime of a session that has not been ended (the field is absent)
NoTime == -1

\* String.prototype.trim on a name made of the characters " " and "M"
RECURSIVE TrimLeft(_)
TrimLeft(s) == IF s # <<>> /\ Head(s) = " " THEN TrimLeft(Tail(s)) ELSE s
RECURSIVE TrimRight(_)
TrimRight(s) == IF s # <<>> /\ s[Len(s)] = " "
                THEN TrimRight(SubSeq(s, 1, Len(s) - 1)) ELSE s
Trim(s) == TrimRight(TrimLeft(s))

\* ------------------------------------------------------------------- state
VARIABLES
  users,        \* User collection: _id -> document
  classrooms,   \* Classroom collection: sequence of documents, _id = index
  sessions,     \* AttendanceSession collection, _id = index
  records,      \* AttendanceRecord collection, in insertion order
  reqs,         \* per slot: the request being handled, or its response
  now,          \* the server clock (new Date())
  nreq,         \* number of requests received so far
  client        \* the app of one user: its storage, auth store and view

vars == <<users, classrooms, sessions, records, reqs, now, nreq, client>>

\* role carried by a user's token (jwt.sign({id, role}) at login/register)
RoleOf(u) == users[u].role

\* ---------------------------------------------------------------- requests
\* the app is not running: nothing in storage (token, stored user), no user
\* in the auth store, no fetch awaited (slot 0), no classroom view (the id of
\* its classroom, its activeSession, none: <<>>, and whether its polling
\* interval is set)
NoClient == [token |-> "none", stored |-> "", user |-> "", pc |-> "off",
             slot |-> 0, cid |-> 0, session |-> <<>>, timer |-> FALSE]

NoResp == [code |-> 0, msg |-> ""]
NoPre == [status |-> "none", marked |-> FALSE, member |-> FALSE]

\* op, user, tok and the arguments name, joinCode, cid, sid, email, password,
\* role, status are the request;
\* pc is the handler's position; loc* are the handler's local variables
\* (locDocs: the documents a find returned, each with its _id);
\* resp is the response once pc = "done" and body the documents it carries
\* (<<>>: none, or null); pre is what the store held about the request's
\* target when the handler started.
Idle == [op |-> "none", user |-> "", tok |-> "", name |-> <<>>, joinCode |-> "",
         cid |-> 0, sid |-> 0, email |-> <<>>, password |-> <<>>, role |-> "",
         status |-> "",
         pc |-> "idle",
         locCode |-> "", locCid |-> 0, locTime |-> NoTime, locDocs |-> <<>>,
         resp |-> NoResp, body |-> <<>>, pre |-> NoPre]

\* res.status(c).json({ message: m })
Reply(q, c, m) == [q EXCEPT !.pc = "done", !.resp = [code |-> c, msg |-> m]]

\* res.json(b) for the documents b
ReplyBody(q, m, b) == [Reply(q, 200, m) EXCEPT !.body = b]

Free(r) == reqs[r].pc = "idle"
InFlight(op) == Cardinality({r \in Slots : reqs[r].op = op /\ ~Free(r)})

\* A handler's continuation runs to completion on the event loop: the response
\* it writes leaves the server, and the handler returns, before any other
\* continuation runs.  A slot is "done" in the one state that shows the
\* response; Respond is the only step from there.
Responding == \E r \in Slots : reqs[r].pc = "done"

\* ----------------------------------------------------------- store queries
ClassroomIds == 1..Len(classrooms)
SessionIds == 1..Len(sessions)

\* classroom.members.some(member => member.user.toString() === req.user.id)
IsMember(c, u) == \E i \in 1..Len(c.members) : c.members[i].user = u

\* Classroom.findOne({ joinCode }): ids of the classrooms with that code
ClassroomsByCode(jc) == {i \in ClassroomIds : classrooms[i].joinCode = jc}

\* AttendanceSession.findOne({ classroom, status: "active" })
ActiveSessions(cid) ==
  {i \in SessionIds : sessions[i].classroom = cid /\ sessions[i].status = "active"}

\* AttendanceRecord.findOne({ session, student })
RecordsOf(sid, u) ==
  {i \in 1..Len(records) : records[i].session = sid /\ records[i].student = u}

\* what the store holds about a session and a user
PreOf(u, sid) ==
  IF sid \in SessionIds
  THEN [status |-> sessions[sid].status,
        marked |-> RecordsOf(sid, u) # {},
        member |-> IsMember(classrooms[sessions[sid].classroom], u)]
  ELSE NoPre

\* the document of a registered user: a1 and a2 are admins, s1 is a student;
\* a1 has the e-mail a@b.c
Account(u) ==
  [email |-> Mail(IF u = "a1" THEN "a" ELSE u),
   password |-> Hash(<<"p", "p", "p", "p", "p", "p">>),
   role |-> IF u = "s1" THEN "student" ELSE "admin"]

Init ==
  /\ users = [u \in {"a1", "s1"} |-> Account(u)]
  /\ classrooms = <<>>
  /\ sessions = <<>>
  /\ records = <<>>
  /\ reqs = [r \in Slots |-> Idle]
  /\ now = 0
  /\ nreq = 0
  /\ client = NoClient

\* the clock advances
Tick ==
  /\ ~Responding
  /\ now < MaxTime
  /\ now' = now + 1
  /\ UNCHANGED <<users, classrooms, sessions, records, reqs, nreq, client>>

\* ------------------------------------------------------------ request entry
\* variant: the token is not verified
Authenticate_NoVerify(q, handled) ==
  IF q.tok = "none" THEN Reply(q, 401, "Authentication required")
  ELSE handled

\* authenticateToken: the handler runs only for a token that verifies
Authenticate(q, handled) ==
  IF q.tok = "none" THEN Reply(q, 401, "Authentication required")
  ELSE IF q.tok = "invalid" THEN Reply(q, 403, "Invalid or expired token")
  ELSE handled

\* The request q arrives, is given the lowest free slot, and its handler runs
\* up to and including its first store operation; handled is the handler's
\* state after that.
Begin(r, q, handled) ==
  /\ ~Responding
  /\ nreq < MaxRequests
  /\ Free(r)
  /\ \A r2 \in Slots : r2 < r => ~Free(r2)
  /\ nreq' = nreq + 1
  /\ reqs' = [reqs EXCEPT ![r] = Authenticate(q, handled)]
  /\ UNCHANGED <<users, classrooms, sessions, records, now, client>>

\* a later store operation of the handler in slot r, which changes no document
Continue(r, pc, handled) ==
  /\ ~Responding
  /\ reqs[r].pc = pc
  /\ reqs' = [reqs EXCEPT ![r] = handled]
  /\ UNCHANGED <<users, classrooms, sessions, records, now, nreq, client>>

\* the tokens the clients of this specification send
HeldTokens == {"valid"}

\* the response has been written; the handler returns
Respond(r) ==
  /\ reqs[r].pc = "done"
  /\ reqs' = [reqs EXCEPT ![r] = Idle]
  /\ UNCHANGED <<users, classrooms, sessions, records, now, nreq, client>>

\* ------------------------------------------------- POST /api/classrooms
\* variant: the role of the user is not tested
CreateChecks_NoRoleTest(q, jc) ==
  IF Trim(q.name) = <<>> THEN Reply(q, 400, "Classroom name is required")
  ELSE IF q.user \notin DOMAIN users THEN Reply(q, 404, "User not found")
  ELSE [q EXCEPT !.pc = "create_save", !.locCode = jc]

\* the name check, User.findById, the role check, generateJoinCode (jc)
CreateChecks(q, jc) ==
  IF Trim(q.name) = <<>> THEN Reply(q, 400, "Classroom name is required")
  ELSE IF q.user \notin DOMAIN users THEN Reply(q, 404, "User not found")
  ELSE IF users[q.user].role # "admin"
    THEN Reply(q, 403, "Only admins can create classrooms")
  ELSE [q EXCEPT !.pc = "create_save", !.locCode = jc]

CreateFindUser(r) ==
  \E u \in DOMAIN users, t \in HeldTokens, n \in Names, jc \in Codes :
    LET q == [Idle EXCEPT !.op = "create", !.user = u, !.tok = t, !.name = n] IN
    /\ Len(classrooms) + InFlight("create") < MaxClassrooms
    /\ Begin(r, q, CreateChecks(q, jc))

\* the document new Classroom({...}) builds
NewClassroom(q) ==
  [name |-> Trim(q.name), joinCode |-> q.locCode, createdBy |-> q.user,
   members |-> << [user |-> q.user, role |-> "admin"] >>]

\* variant: the collection has no unique index on joinCode
ClassroomInsertOk_NoIndex(doc) == TRUE

\* classroom.save(): the insert fails on the unique index of joinCode
ClassroomInsertOk(doc) == ClassroomsByCode(doc.joinCode) = {}

CreateSave(r) ==
  LET q == reqs[r] IN
  /\ ~Responding
  /\ q.pc = "create_save"
  /\ IF ClassroomInsertOk(NewClassroom(q))
       THEN /\ classrooms' = Append(classrooms, NewClassroom(q))
            /\ reqs' = [reqs EXCEPT ![r] = Reply(q, 201, "created")]
       ELSE /\ classrooms' = classrooms
            /\ reqs' = [reqs EXCEPT ![r] =
                         Reply(q, 500, "Server error while creating classroom")]
  /\ UNCHANGED <<users, sessions, records, now, nreq, client>>

\* -------------------------------------------- POST /api/classrooms/join
\* variant: the handler does not test for an existing membership
JoinChecks_NoMemberTest(q, c) ==
  IF c = 0 THEN Reply(q, 404, "Invalid join code")
  ELSE [q EXCEPT !.pc = "join_save", !.locCid = c]

\* Classroom.findOne({joinCode}) found c (0: none), the membership check,
\* classroom.members.push(...)
JoinChecks(q, c) ==
  IF c = 0 THEN Reply(q, 404, "Invalid join code")
  ELSE IF IsMember(classrooms[c], q.user)
    THEN Reply(q, 400, "Already a member of this classroom")
  ELSE [q EXCEPT !.pc = "join_save", !.locCid = c]

JoinFindClassroom(r) ==
  \E u \in DOMAIN users, t \in HeldTokens, jc \in Codes :
    LET q == [Idle EXCEPT !.op = "join", !.user = u, !.tok = t, !.joinCode = jc]
        found == ClassroomsByCode(jc) IN
    \E c \in (IF found = {} THEN {0} ELSE found) : Begin(r, q, JoinChecks(q, c))

\* variant: the member list is assigned instead of pushed to
PushMember_Assign(c, u) ==
  [c EXCEPT !.members = << [user |-> u, role |-> "student"] >>]

\* variant: the member gets the role of the account
PushMember_AccountRole(c, u) ==
  [c EXCEPT !.members = Append(@, [user |-> u, role |-> RoleOf(u)])]

\* classroom.save() after members.push: the save sends the pushed element
\* as a $push on the stored document
PushMember(c, u) ==
  [c EXCEPT !.members = Append(@, [user |-> u, role |-> "student"])]

JoinSave(r) ==
  LET q == reqs[r] IN
  /\ ~Responding
  /\ q.pc = "join_save"
  /\ classrooms' = [classrooms EXCEPT ![q.locCid] = PushMember(@, q.user)]
  /\ reqs' = [reqs EXCEPT ![r] = Reply(q, 200, "joined")]
  /\ UNCHANGED <<users, sessions, records, now, nreq, client>>

\* -------------------- POST /api/attendance/session/start/:classroomId
\* the checks after Classroom.findById
StartChecks(q) ==
  IF q.cid \notin ClassroomIds THEN Reply(q, 404, "Classroom not found")
  ELSE IF RoleOf(q.user) # "admin"
    THEN Reply(q, 403, "Only admin can start attendance")
  ELSE [q EXCEPT !.pc = "start_findActive"]

StartFindClassroom(r) ==
  \E u \in DOMAIN users, t \in HeldTokens, c \in 1..MaxClassrooms :
    LET q == [Idle EXCEPT !.op = "start", !.user = u, !.tok = t, !.cid = c] IN
    /\ Len(sessions) + InFlight("start") < MaxSessions
    /\ Begin(r, q, StartChecks(q))

\* variant: the result of the query is not tested
ActiveCheck_NoTest(q) == [q EXCEPT !.pc = "start_save"]

\* AttendanceSession.findOne({classroom, status: "active"}), the check of
\* its result, new AttendanceSession({...})
ActiveCheck(q) ==
  IF ActiveSessions(q.cid) # {}
    THEN Reply(q, 400, "An attendance session is already active")
  ELSE [q EXCEPT !.pc = "start_save"]

\* variant: the session is inserted before the test for an active one
StartFindActive_SaveFirst(r) ==
  /\ ~Responding
  /\ reqs[r].pc = "start_findActive"
  /\ sessions' = Append(sessions,
       [classroom |-> reqs[r].cid, endTime |-> NoTime, status |-> "active",
        createdBy |-> reqs[r].user])
  /\ reqs' = [reqs EXCEPT ![r] =
       IF ActiveSessions(reqs[r].cid) # {}
       THEN Reply(reqs[r], 400, "An attendance session is already active")
       ELSE Reply(reqs[r], 200, "started")]
  /\ UNCHANGED <<users, classrooms, records, now, nreq, client>>

StartFindActive(r) == Continue(r, "start_findActive", ActiveCheck(reqs[r]))

\* the document new AttendanceSession({...}) builds; status defaults to active
NewSession(q) ==
  [classroom |-> q.cid, endTime |-> NoTime, status |-> "active",
   createdBy |-> q.user]

\* session.save(): AttendanceSession has no unique index, the insert succeeds
StartSave(r) ==
  LET q == reqs[r] IN
  /\ ~Responding
  /\ q.pc = "start_save"
  /\ sessions' = Append(sessions, NewSession(q))
  /\ reqs' = [reqs EXCEPT ![r] = Reply(q, 200, "started")]
  /\ UNCHANGED <<users, classrooms, records, now, nreq, client>>

\* ------------------------ POST /api/attendance/session/:sessionId/end
\* variant: the handler does not test for an ended session
EndChecks_NoEndedTest(q) ==
  IF q.sid \notin SessionIds THEN Reply(q, 404, "Session not found")
  ELSE IF RoleOf(q.user) # "admin"
    THEN Reply(q, 403, "Only admin can end attendance")
  ELSE [q EXCEPT !.pc = "end_save", !.locTime = now]

\* the checks after AttendanceSession.findById, then session.status = "ended"
\* and session.endTime = new Date() on the handler's copy
EndChecks(q) ==
  IF q.sid \notin SessionIds THEN Reply(q, 404, "Session not found")
  ELSE IF RoleOf(q.user) # "admin"
    THEN Reply(q, 403, "Only admin can end attendance")
  ELSE IF sessions[q.sid].status = "ended"
    THEN Reply(q, 400, "Session already ended")
  ELSE [q EXCEPT !.pc = "end_save", !.locTime = now]

EndFindSession(r) ==
  \E u \in DOMAIN users, t \in HeldTokens, s \in 1..MaxSessions :
    LET q == [Idle EXCEPT !.op = "end", !.user = u, !.tok = t, !.sid = s,
                          !.pre = PreOf(u, s)] IN
    Begin(r, q, EndChecks(q))

\* variant: the save flips the stored status
EndWrite_Toggle(s, t) ==
  [s EXCEPT !.status = IF @ = "active" THEN "ended" ELSE "active",
            !.endTime = t]

\* session.save(): $set of the two modified paths on the stored document
EndWrite(s, t) == [s EXCEPT !.status = "ended", !.endTime = t]

\* variant: ending a session removes its records
EndSave_DropRecords(r) ==
  LET q == reqs[r] IN
  /\ ~Responding
  /\ q.pc = "end_save"
  /\ sessions' = [sessions EXCEPT ![q.sid] = EndWrite(@, q.locTime)]
  /\ records' = SelectSeq(records, LAMBDA x : x.session # q.sid)
  /\ reqs' = [reqs EXCEPT ![r] = Reply(q, 200, "ended")]
  /\ UNCHANGED <<users, classrooms, now, nreq, client>>

EndSave(r) ==
  LET q == reqs[r] IN
  /\ ~Responding
  /\ q.pc = "end_save"
  /\ sessions' = [sessions EXCEPT ![q.sid] = EndWrite(@, q.locTime)]
  /\ reqs' = [reqs EXCEPT ![r] = Reply(q, 200, "ended")]
  /\ UNCHANGED <<users, classrooms, records, now, nreq, client>>

\* ----------------------- POST /api/attendance/session/:sessionId/mark
\* variant: the role is tested before the session's status
MarkChecks_RoleFirst(q) ==
  IF q.sid \notin SessionIds THEN Reply(q, 404, "Session not found")
  ELSE IF RoleOf(q.user) # "student"
    THEN Reply(q, 403, "Only students can mark attendance")
  ELSE IF sessions[q.sid].status # "active"
    THEN Reply(q, 400, "Attendance session is not active")
  ELSE [q EXCEPT !.pc = "mark_findClassroom",
                 !.locCid = sessions[q.sid].classroom]

\* the checks after AttendanceSession.findById, in the handler's order
MarkChecks(q) ==
  IF q.sid \notin SessionIds THEN Reply(q, 404, "Session not found")
  ELSE IF sessions[q.sid].status # "active"
    THEN Reply(q, 400, "Attendance session is not active")
  ELSE IF RoleOf(q.user) # "student"
    THEN Reply(q, 403, "Only students can mark attendance")
  ELSE [q EXCEPT !.pc = "mark_findClassroom",
                 !.locCid = sessions[q.sid].classroom]

MarkFindSession(r) ==
  \E u \in DOMAIN users, t \in HeldTokens, s \in 1..MaxSessions :
    LET q == [Idle EXCEPT !.op = "mark", !.user = u, !.tok = t, !.sid = s,
                          !.pre = PreOf(u, s)] IN
    Begin(r, q, MarkChecks(q))

\* variant: the enrolment is not tested
EnrolmentCheck_NoTest(q) == [q EXCEPT !.pc = "mark_findExisting"]

\* Classroom.findById(session.classroom) and the enrolment check
EnrolmentCheck(q) ==
  IF ~IsMember(classrooms[q.locCid], q.user)
    THEN Reply(q, 403, "You are not enrolled in this classroom")
  ELSE [q EXCEPT !.pc = "mark_findExisting"]

MarkFindClassroom(r) ==
  Continue(r, "mark_findClassroom", EnrolmentCheck(reqs[r]))

\* variant: the result of the query is not tested
ExistingCheck_NoTest(q) == [q EXCEPT !.pc = "mark_save"]

\* AttendanceRecord.findOne({session, student}), the check of its result,
\* new AttendanceRecord({...})
ExistingCheck(q) ==
  IF RecordsOf(q.sid, q.user) # {}
    THEN Reply(q, 400, "Attendance already marked")
  ELSE [q EXCEPT !.pc = "mark_save"]

MarkFindExisting(r) ==
  Continue(r, "mark_findExisting", ExistingCheck(reqs[r]))

NewRecord(q) == [session |-> q.sid, student |-> q.user, status |-> "present"]

\* record.save(): AttendanceRecord has no unique index, the insert succeeds;
\* record.populate(...) reads the immutable User and is part of this step
MarkSave(r) ==
  LET q == reqs[r] IN
  /\ ~Responding
  /\ q.pc = "mark_save"
  /\ records' = Append(records, NewRecord(q))
  /\ reqs' = [reqs EXCEPT ![r] = Reply(q, 200, "marked")]
  /\ UNCHANGED <<users, classrooms, sessions, now, nreq, client>>

\* the ids a read request names: those classrooms can have, and one more
ClassroomRefs == 1..(MaxClassrooms + 1)

\* ------------------------------------------- GET /api/classrooms/:id
\* Classroom.findOne({ _id: id, "members.user": req.user.id })
FindOwnClassroom(cid, u) ==
  {c \in ClassroomIds : c = cid /\ IsMember(classrooms[c], u)}

\* variant: the query selects by _id alone and the handler tests membership
GetChecks_Leak(q) ==
  IF q.cid \notin ClassroomIds THEN Reply(q, 404, "Classroom not found")
  ELSE IF ~IsMember(classrooms[q.cid], q.user)
    THEN Reply(q, 403, "Classroom not found")
  ELSE ReplyBody(q, "classroom", << classrooms[q.cid] >>)

GetChecks(q) ==
  IF FindOwnClassroom(q.cid, q.user) = {}
    THEN Reply(q, 404, "Classroom not found")
  ELSE ReplyBody(q, "classroom", << classrooms[q.cid] >>)

GetClassroom(r) ==
  \E u \in DOMAIN users, t \in HeldTokens, c \in ClassroomRefs :
    LET q == [Idle EXCEPT !.op = "get", !.user = u, !.tok = t, !.cid = c] IN
    Begin(r, q, GetChecks(q))

\* ------------------- GET /api/attendance/session/active/:classroomId
\* AttendanceSession.findOne({classroom, status: "active"}) returned s
\* (0: null), res.json(null) for null
ActiveFound(q, s) ==
  IF s = 0 THEN ReplyBody(q, "null", <<>>)
  ELSE [q EXCEPT !.pc = "active_findRecords",
                 !.locDocs = << [id |-> s, session |-> sessions[s]] >>]

ActiveFindSession(r) ==
  \E u \in DOMAIN users, t \in HeldTokens, c \in ClassroomRefs :
    LET q == [Idle EXCEPT !.op = "active", !.user = u, !.tok = t, !.cid = c]
        found == ActiveSessions(c) IN
    \E s \in (IF found = {} THEN {0} ELSE found) : Begin(r, q, ActiveFound(q, s))

\* variant: the find has no filter
SessionRecords_All(sid) == records

\* AttendanceRecord.find({ session: sid })
SessionRecords(sid) == SelectSeq(records, LAMBDA x : x.session = sid)

\* { ...session.toObject(), records } for a session document d
WithRecords(d) ==
  [id |-> d.id, session |-> d.session, records |-> SessionRecords(d.id)]

ActiveFindRecords(r) ==
  Continue(r, "active_findRecords",
           ReplyBody(reqs[r], "session", << WithRecords(reqs[r].locDocs[1]) >>))

\* ------------------ GET /api/attendance/session/records/:classroomId
\* variant: only members may view, whatever their role
HistoryChecks_MembersOnly(q) ==
  IF q.cid \notin ClassroomIds THEN Reply(q, 404, "Classroom not found")
  ELSE IF ~IsMember(classrooms[q.cid], q.user)
    THEN Reply(q, 403, "Not authorized to view attendance records")
  ELSE [q EXCEPT !.pc = "history_findSessions"]

\* the checks after Classroom.findById
HistoryChecks(q) ==
  IF q.cid \notin ClassroomIds THEN Reply(q, 404, "Classroom not found")
  ELSE IF RoleOf(q.user) # "admin" /\ ~IsMember(classrooms[q.cid], q.user)
    THEN Reply(q, 403, "Not authorized to view attendance records")
  ELSE [q EXCEPT !.pc = "history_findSessions"]

HistoryFindClassroom(r) ==
  \E u \in DOMAIN users, t \in HeldTokens, c \in ClassroomRefs :
    LET q == [Idle EXCEPT !.op = "history", !.user = u, !.tok = t, !.cid = c] IN
    Begin(r, q, HistoryChecks(q))

\* AttendanceSession.find({ classroom: cid }) of a request without a date
\* filter: the sessions of the classroom, latest _id first (the sort key
\* startTime is not modelled)
RECURSIVE SessionsOf(_, _)
SessionsOf(cid, n) ==
  IF n = 0 THEN <<>>
  ELSE IF sessions[n].classroom = cid
    THEN << [id |-> n, session |-> sessions[n]] >> \o SessionsOf(cid, n - 1)
  ELSE SessionsOf(cid, n - 1)

HistoryFindSessions(r) ==
  Continue(r, "history_findSessions",
           [reqs[r] EXCEPT !.pc = "history_findRecords",
                           !.locDocs = SessionsOf(reqs[r].cid, Len(sessions))])

\* Promise.all(sessions.map(... AttendanceRecord.find({session}) ...)): the
\* finds are issued together and modelled as one store operation
HistoryFindRecords(r) ==
  Continue(r, "history_findRecords",
           ReplyBody(reqs[r], "sessions",
                     [i \in 1..Len(reqs[r].locDocs) |->
                        WithRecords(reqs[r].locDocs[i])]))

\* ------------------------------------------------ POST /api/auth/register
\* a request q to a route without authenticateToken arrives; as Begin
BeginOpen(r, handled) ==
  /\ ~Responding
  /\ nreq < MaxRequests
  /\ Free(r)
  /\ \A r2 \in Slots : r2 < r => ~Free(r2)
  /\ nreq' = nreq + 1
  /\ reqs' = [reqs EXCEPT ![r] = handled]
  /\ UNCHANGED <<users, classrooms, sessions, records, now, client>>

\* User.findOne({ email: e })
UsersByEmail(e) == {u \in DOMAIN users : users[u].email = e}

\* email.trim().toLowerCase()
NormalEmail(e) == ToLower(Trim(e))

\* the validations of register
RegisterValid(q) ==
  /\ Trim(q.email) # <<>>
  /\ EmailFormatOk(NormalEmail(q.email))
  /\ Len(q.password) >= 6
  /\ q.role \in {"admin", "student"}

\* the validations and the check after User.findOne
RegisterChecks(q) ==
  IF Trim(q.email) = <<>> THEN Reply(q, 400, "Valid email is required")
  ELSE IF ~EmailFormatOk(NormalEmail(q.email))
    THEN Reply(q, 400, "Invalid email format")
  ELSE IF Len(q.password) < 6
    THEN Reply(q, 400, "Password must be at least 6 characters long")
  ELSE IF q.role \notin {"admin", "student"} THEN Reply(q, 400, "Invalid role")
  ELSE IF UsersByEmail(NormalEmail(q.email)) # {}
    THEN Reply(q, 409, "User already exists")
  ELSE [q EXCEPT !.pc = "register_save"]

RegisterFindExisting(r) ==
  \E e \in Emails, p \in Passwords, ro \in RoleInputs :
    LET q == [Idle EXCEPT !.op = "register", !.email = e, !.password = p,
                          !.role = ro] IN
    BeginOpen(r, RegisterChecks(q))

\* new User({ email, password: hashedPassword, role })
NewUser(q) ==
  [email |-> NormalEmail(q.email), password |-> Hash(q.password),
   role |-> q.role]

\* jwt.sign({ id, role }) and the user of a response, for the user u
Session(u) ==
  [user |-> [id |-> u, email |-> users[u].email, role |-> users[u].role],
   token |-> [id |-> u, role |-> users[u].role]]

\* the _id of a new user: the first of these that no user has
UserIds == <<"u1", "u2", "u3">>
NewUserId ==
  UserIds[1 + Cardinality({i \in DOMAIN UserIds : UserIds[i] \in DOMAIN users})]

\* user.save(): the insert fails on the unique index of email; the reply
\* carries the new user and a token
RegisterSave(r) ==
  LET q == reqs[r]
      u == NewUserId IN
  /\ ~Responding
  /\ q.pc = "register_save"
  /\ IF UsersByEmail(NormalEmail(q.email)) # {}
     THEN /\ reqs' = [reqs EXCEPT ![r] = Reply(q, 500, "Registration failed")]
          /\ users' = users
     ELSE /\ users' = [x \in DOMAIN users \cup {u} |->
                         IF x = u THEN NewUser(q) ELSE users[x]]
          /\ reqs' = [reqs EXCEPT ![r] =
               [Reply(q, 201, "User registered successfully") EXCEPT
                  !.body = << [user |-> [id |-> u, email |-> NewUser(q).email,
                                         role |-> q.role],
                               token |-> [id |-> u, role |-> q.role]] >>]]
  /\ UNCHANGED <<classrooms, sessions, records, now, nreq, client>>

\* --------------------------------------------------- POST /api/auth/login
\* variant: an unknown e-mail has an answer of its own
LoginChecks_UnknownEmail(q) ==
  IF q.email = <<>> \/ q.password = <<>>
    THEN Reply(q, 400, "Email and password are required")
  ELSE IF UsersByEmail(q.email) = {} THEN Reply(q, 404, "User not found")
  ELSE LET u == CHOOSE x \in UsersByEmail(q.email) : TRUE IN
       IF ~Compare(q.password, users[u].password)
       THEN Reply(q, 400, "Invalid email or password")
       ELSE ReplyBody(q, "login", << Session(u) >>)

\* variant: the e-mail is normalised as register stores it
LoginChecks_Normalised(q) ==
  IF q.email = <<>> \/ q.password = <<>>
    THEN Reply(q, 400, "Email and password are required")
  ELSE IF UsersByEmail(NormalEmail(q.email)) = {}
    THEN Reply(q, 400, "Invalid email or password")
  ELSE LET u == CHOOSE x \in UsersByEmail(NormalEmail(q.email)) : TRUE IN
       IF ~Compare(q.password, users[u].password)
       THEN Reply(q, 400, "Invalid email or password")
       ELSE ReplyBody(q, "login", << Session(u) >>)

\* the input check, User.findOne({ email }) and bcrypt.compare
LoginChecks(q) ==
  IF q.email = <<>> \/ q.password = <<>>
    THEN Reply(q, 400, "Email and password are required")
  ELSE IF UsersByEmail(q.email) = {}
    THEN Reply(q, 400, "Invalid email or password")
  ELSE LET u == CHOOSE x \in UsersByEmail(q.email) : TRUE IN
       IF ~Compare(q.password, users[u].password)
       THEN Reply(q, 400, "Invalid email or password")
       ELSE ReplyBody(q, "login", << Session(u) >>)

LoginFindUser(r) ==
  \E e \in Emails, p \in Passwords :
    LET q == [Idle EXCEPT !.op = "login", !.email = e, !.password = p] IN
    BeginOpen(r, LoginChecks(q))

\* ------------------------- GET /api/attendance/session/:sessionId
\* the check after AttendanceSession.findById
SessionChecks(q) ==
  IF q.sid \notin SessionIds THEN Reply(q, 404, "Session not found")
  ELSE [q EXCEPT !.pc = "session_findRecords",
                 !.locDocs = << [id |-> q.sid, session |-> sessions[q.sid]] >>]

SessionFindSession(r) ==
  \E u \in DOMAIN users, t \in HeldTokens, sid \in 1..MaxSessions :
    LET q == [Idle EXCEPT !.op = "session", !.user = u, !.tok = t, !.sid = sid] IN
    Begin(r, q, SessionChecks(q))

\* AttendanceRecord.find({ session: sessionId }) and the reply
SessionFindRecords(r) ==
  Continue(r, "session_findRecords",
           ReplyBody(reqs[r], "session", << WithRecords(reqs[r].locDocs[1]) >>))

\* ------------------------------ POST /api/attendance/:classroomId/mark
\* status strings a request can carry
StatusInputs == {"present", "absent", "late", "excused"}

\* the status check and the checks after Classroom.findById
LegacyMarkChecks(q) ==
  IF q.status \notin {"present", "absent", "late"}
    THEN Reply(q, 400, "Invalid attendance status")
  ELSE IF q.cid \notin ClassroomIds THEN Reply(q, 404, "Classroom not found")
  ELSE IF ~IsMember(classrooms[q.cid], q.user)
    THEN Reply(q, 403, "You are not enrolled in this classroom")
  ELSE [q EXCEPT !.pc = "legacy_save"]

LegacyMarkFindClassroom(r) ==
  \E u \in DOMAIN users, t \in HeldTokens, c \in 1..MaxClassrooms,
     st \in StatusInputs :
    LET q == [Idle EXCEPT !.op = "legacyMark", !.user = u, !.tok = t,
                          !.cid = c, !.status = st] IN
    Begin(r, q, LegacyMarkChecks(q))

\* new AttendanceRecord({ classroom, student, status }): the schema has no
\* path classroom, which is dropped, and no session was given (0: absent)
LegacyRecord(q) == [session |-> 0, student |-> q.user, status |-> q.status]

\* variant: the schema of the earlier server, without session
RecordValid_Legacy(doc) == doc.status \in {"present", "absent", "late"}

\* validation by attendanceRecordSchema: session is required, status is
\* one of the enum
RecordValid(doc) == doc.session # 0 /\ doc.status \in {"present"}

\* attendance.save(): a document that fails validation is not inserted
LegacyMarkSave(r) ==
  LET q == reqs[r] IN
  /\ ~Responding
  /\ q.pc = "legacy_save"
  /\ IF RecordValid(LegacyRecord(q))
     THEN /\ records' = Append(records, LegacyRecord(q))
          /\ reqs' = [reqs EXCEPT ![r] =
                         ReplyBody(q, "attendance", << LegacyRecord(q) >>)]
     ELSE /\ records' = records
          /\ reqs' = [reqs EXCEPT ![r] =
                         Reply(q, 500, "Failed to mark attendance")]
  /\ UNCHANGED <<users, classrooms, sessions, now, nreq, client>>

\* ---------- the earlier server: POST /api/attendance/:classroomId/mark
\* In the specification of the earlier server, records is its Attendance
\* collection, of documents { classroom, student, status }.

\* variant: only students may mark
AttendanceChecks_StudentsOnly(q) ==
  IF FindOwnClassroom(q.cid, q.user) = {} \/ RoleOf(q.user) # "student"
    THEN Reply(q, 404, "Classroom not found")
  ELSE [q EXCEPT !.pc = "attendance_save"]

\* the check after Classroom.findOne({ _id, "members.user": req.user.id })
AttendanceChecks(q) ==
  IF FindOwnClassroom(q.cid, q.user) = {}
    THEN Reply(q, 404, "Classroom not found")
  ELSE [q EXCEPT !.pc = "attendance_save"]

AttendanceFindClassroom(r) ==
  \E u \in DOMAIN users, t \in HeldTokens, c \in 1..MaxClassrooms,
     st \in StatusInputs :
    LET q == [Idle EXCEPT !.op = "attendance", !.user = u, !.tok = t,
                          !.cid = c, !.status = st] IN
    /\ Len(records) + InFlight("attendance") < MaxMarks
    /\ Begin(r, q, AttendanceChecks(q))

\* new Attendance({ classroom, student, status })
NewAttendance(q) ==
  [classroom |-> q.cid, student |-> q.user, status |-> q.status]

\* validation by attendanceSchema
AttendanceValid(doc) == doc.status \in {"present", "absent", "late"}

\* attendance.save(): a document that fails validation is not inserted
AttendanceSave(r) ==
  LET q == reqs[r] IN
  /\ ~Responding
  /\ q.pc = "attendance_save"
  /\ IF AttendanceValid(NewAttendance(q))
     THEN /\ records' = Append(records, NewAttendance(q))
          /\ reqs' = [reqs EXCEPT ![r] =
               [Reply(q, 201, "attendance") EXCEPT
                  !.body = << NewAttendance(q) >>]]
     ELSE /\ records' = records
          /\ reqs' = [reqs EXCEPT ![r] =
                         Reply(q, 500, "Server error while marking attendance")]
  /\ UNCHANGED <<users, classrooms, sessions, now, nreq, client>>

\* ------------------------------------------------- the client: authStore
\* the routes app.get and app.post register, by method and path pattern; no
\* pattern with a parameter matches a path under /api/auth
Routes == {<<"POST", "/api/auth/register">>, <<"POST", "/api/auth/login">>,
           <<"POST", "/api/classrooms">>, <<"GET", "/api/classrooms">>,
           <<"GET", "/api/classrooms/:id">>,
           <<"POST", "/api/classrooms/join">>,
           <<"POST", "/api/attendance/:classroomId/mark">>,
           <<"GET", "/api/attendance/:classroomId">>,
           <<"POST", "/api/attendance/session/start/:classroomId">>,
           <<"POST", "/api/attendance/session/:sessionId/end">>,
           <<"POST", "/api/attendance/session/:sessionId/mark">>,
           <<"GET", "/api/attendance/session/active/:classroomId">>,
           <<"GET", "/api/attendance/session/records/:classroomId">>,
           <<"GET", "/api/attendance/session/:sessionId">>}

\* variant: the server has a route that verifies the token
Dispatch_Verify(q, route) ==
  IF q.tok = "valid" THEN Reply(q, 200, "verified")
  ELSE Reply(q, 403, "Invalid or expired token")

\* the server's answer to a request for a method and path that has no handler
\* of its own in this model: no route matches, and Express answers 404
Dispatch(q, route) ==
  IF route \in Routes THEN q ELSE Reply(q, 404, "Cannot GET")

\* response.ok
Ok(resp) == resp.code \in 200..299

\* a request of the client reaches the server, whose handler runs up to
\* handled; c is the client after sending it
ClientSend(r, handled, c) ==
  /\ ~Responding
  /\ nreq < MaxRequests
  /\ Free(r)
  /\ \A r2 \in Slots : r2 < r => ~Free(r2)
  /\ nreq' = nreq + 1
  /\ reqs' = [reqs EXCEPT ![r] = handled]
  /\ client' = c
  /\ UNCHANGED <<users, classrooms, sessions, records, now>>

\* checkAuthStatus up to its fetch: with a token and a user in storage the
\* user is set in the store and GET /api/auth/verify is sent with the token
CheckAuthStatus(r) ==
  /\ client.pc = "start"
  /\ client.token # "none" /\ client.stored # ""
  /\ LET q == [Idle EXCEPT !.op = "verify", !.user = client.stored,
                           !.tok = client.token] IN
     ClientSend(r, Dispatch(q, <<"GET", "/api/auth/verify">>),
                [client EXCEPT !.user = client.stored, !.pc = "verify",
                               !.slot = r])

\* checkAuthStatus with no token or no user in storage: nothing is done
CheckAuthNothing ==
  /\ client.pc = "start"
  /\ client.token = "none" \/ client.stored = ""
  /\ client' = [client EXCEPT !.pc = "done"]
  /\ UNCHANGED <<users, classrooms, sessions, records, reqs, now, nreq>>

\* checkAuthStatus after its fetch: a response that is not ok removes the
\* token and the user from storage and the user from the store
CheckAuthResponse(r) ==
  /\ client.pc = "verify"
  /\ r = client.slot /\ reqs[r].pc = "done"
  /\ reqs' = [reqs EXCEPT ![r] = Idle]
  /\ client' = IF Ok(reqs[r].resp)
               THEN [client EXCEPT !.pc = "done", !.slot = 0]
               ELSE [client EXCEPT !.token = "none", !.stored = "",
                                   !.user = "", !.pc = "done", !.slot = 0]
  /\ UNCHANGED <<users, classrooms, sessions, records, now, nreq>>

\* the response of a request another client sent has been written
RespondOther(r) == r # client.slot /\ Respond(r)

\* ------------------------------------------- the client: ClassroomScreen
\* loadActiveSession up to its fetch, for the classroom of the view
LoadActiveSession(r, c) ==
  /\ client.token # "none"
  /\ LET q == [Idle EXCEPT !.op = "active", !.user = client.user,
                           !.tok = client.token, !.cid = client.cid]
         found == ActiveSessions(client.cid) IN
     \E s \in (IF found = {} THEN {0} ELSE found) :
       ClientSend(r, Authenticate(q, ActiveFound(q, s)), c)

\* the view is mounted: loadData calls loadActiveSession
ViewLoad(r) ==
  /\ client.pc = "open"
  /\ LoadActiveSession(r, [client EXCEPT !.pc = "loading", !.slot = r])

\* variant: the interval is set whatever the view holds
PollingOn_Always(activeSession) == TRUE

\* the polling effect, run again when activeSession?._id changes: it returns
\* at once without an activeSession, and sets the interval otherwise
PollingOn(activeSession) == activeSession # <<>>

\* loadActiveSession after its fetch: setActiveSession(data) for a response
\* that is ok, and the polling effect on the new activeSession
ViewReceive(r) ==
  /\ client.pc \in {"loading", "view"}
  /\ r = client.slot /\ reqs[r].pc = "done"
  /\ reqs' = [reqs EXCEPT ![r] = Idle]
  /\ client' = IF Ok(reqs[r].resp)
               THEN [client EXCEPT !.pc = "view", !.slot = 0,
                                   !.session = reqs[r].body,
                                   !.timer = PollingOn(reqs[r].body)]
               ELSE [client EXCEPT !.pc = "view", !.slot = 0]
  /\ UNCHANGED <<users, classrooms, sessions, records, now, nreq>>

\* the interval fires: loadActiveSession (one fetch of the view at a time)
PollTick(r) ==
  /\ client.pc = "view"
  /\ client.timer
  /\ client.slot = 0
  /\ LoadActiveSession(r, [client EXCEPT !.slot = r])

\* what GET active answers for classroom c on the present store
ServerViews(c) ==
  IF ActiveSessions(c) = {} THEN {<<>>}
  ELSE {<< WithRecords([id |-> s, session |-> sessions[s]]) >> :
          s \in ActiveSessions(c)}

\* ------------------------------------------------------------ specification
Next ==
  \/ Tick
  \/ \E r \in Slots : Respond(r)
  \/ \E r \in Slots : CreateFindUser(r)
  \/ \E r \in Slots : CreateSave(r)
  \/ \E r \in Slots : JoinFindClassroom(r)
  \/ \E r \in Slots : JoinSave(r)
  \/ \E r \in Slots : StartFindClassroom(r)
  \/ \E r \in Slots : StartFindActive(r)
  \/ \E r \in Slots : StartSave(r)
  \/ \E r \in Slots : EndFindSession(r)
  \/ \E r \in Slots : EndSave(r)
  \/ \E r \in Slots : MarkFindSession(r)
  \/ \E r \in Slots : MarkFindClassroom(r)
  \/ \E r \in Slots : MarkFindExisting(r)
  \/ \E r \in Slots : MarkSave(r)

Spec == Init /\ [][Next]_vars

\* the routes behind authenticateToken
ProtectedRoutes ==
  {"create", "list", "get", "join", "legacyMark", "legacyList",
   "start", "end", "mark", "active", "history", "session"}

\* a request to a protected route without a token that verifies:
\* authenticateToken answers it, or calls next() and the handler runs
Unauthenticated(r) ==
  \E op \in ProtectedRoutes, t \in Tokens \ HeldTokens :
    LET q == [Idle EXCEPT !.op = op, !.tok = t] IN
    Begin(r, q, [q EXCEPT !.pc = "next"])

\* the server with clients that also send such requests
NextAuth ==
  \/ Next
  \/ \E r \in Slots : Unauthenticated(r)

SpecAuth == Init /\ [][NextAuth]_vars

\* the earlier server, started on a database with the users and classrooms
\* of InitRead and no attendance
InitEarlier ==
  /\ users = [u \in {"a1", "a2", "s1"} |-> Account(u)]
  /\ classrooms = << [name |-> <<"M">>, joinCode |-> "AAAAAA",
                      createdBy |-> "a1",
                      members |-> << [user |-> "a1", role |-> "admin"],
                                     [user |-> "s1", role |-> "student"] >>],
                     [name |-> <<"M">>, joinCode |-> "BBBBBB",
                      createdBy |-> "a2",
                      members |-> << [user |-> "a2", role |-> "admin"] >>] >>
  /\ sessions = <<>>
  /\ records = <<>>
  /\ reqs = [r \in Slots |-> Idle]
  /\ now = 0
  /\ nreq = 0
  /\ client = NoClient

NextEarlier ==
  \/ \E r \in Slots : Respond(r)
  \/ \E r \in Slots : AttendanceFindClassroom(r)
  \/ \E r \in Slots : AttendanceSave(r)

SpecEarlier == InitEarlier /\ [][NextEarlier]_vars

\* the account routes on an empty database
InitAccount ==
  /\ users = [u \in {} |-> Account(u)]
  /\ classrooms = <<>>
  /\ sessions = <<>>
  /\ records = <<>>
  /\ reqs = [r \in Slots |-> Idle]
  /\ now = 0
  /\ nreq = 0
  /\ client = NoClient

NextAccount ==
  \/ \E r \in Slots : Respond(r)
  \/ \E r \in Slots : RegisterFindExisting(r)
  \/ \E r \in Slots : RegisterSave(r)
  \/ \E r \in Slots : LoginFindUser(r)

SpecAccount == InitAccount /\ [][NextAccount]_vars

\* the server, within one instant of the clock, with clients that send
\* requests without a token that verifies and register requests; on the
\* database of Init a register request that passes the validations finds its
\* e-mail taken by a1, so that RegisterSave is never enabled
NextReject ==
  \/ \E r \in Slots : Respond(r)
  \/ \E r \in Slots : CreateFindUser(r)
  \/ \E r \in Slots : CreateSave(r)
  \/ \E r \in Slots : JoinFindClassroom(r)
  \/ \E r \in Slots : JoinSave(r)
  \/ \E r \in Slots : StartFindClassroom(r)
  \/ \E r \in Slots : StartFindActive(r)
  \/ \E r \in Slots : StartSave(r)
  \/ \E r \in Slots : EndFindSession(r)
  \/ \E r \in Slots : EndSave(r)
  \/ \E r \in Slots : MarkFindSession(r)
  \/ \E r \in Slots : MarkFindClassroom(r)
  \/ \E r \in Slots : MarkFindExisting(r)
  \/ \E r \in Slots : MarkSave(r)
  \/ \E r \in Slots : Unauthenticated(r)
  \/ \E r \in Slots : RegisterFindExisting(r)

SpecReject == Init /\ [][NextReject]_vars

\* a database the server is started on: a1 has created classroom 1, s1 has
\* joined it, and a session of it was started, marked by s1 and ended; a
\* second admin a2 has created classroom 2, which nobody has joined
InitRead ==
  /\ users = [u \in {"a1", "a2", "s1"} |-> Account(u)]
  /\ classrooms = << [name |-> <<"M">>, joinCode |-> "AAAAAA",
                      createdBy |-> "a1",
                      members |-> << [user |-> "a1", role |-> "admin"],
                                     [user |-> "s1", role |-> "student"] >>],
                     [name |-> <<"M">>, joinCode |-> "BBBBBB",
                      createdBy |-> "a2",
                      members |-> << [user |-> "a2", role |-> "admin"] >>] >>
  /\ sessions = << [classroom |-> 1, endTime |-> 0, status |-> "ended",
                    createdBy |-> "a1"] >>
  /\ records = << [session |-> 1, student |-> "s1", status |-> "present"] >>
  /\ reqs = [r \in Slots |-> Idle]
  /\ now = 0
  /\ nreq = 0
  /\ client = NoClient

\* the attendance routes on that database, within one instant of the clock
NextAttendance ==
  \/ \E r \in Slots : Respond(r)
  \/ \E r \in Slots : StartFindClassroom(r)
  \/ \E r \in Slots : StartFindActive(r)
  \/ \E r \in Slots : StartSave(r)
  \/ \E r \in Slots : EndFindSession(r)
  \/ \E r \in Slots : EndSave(r)
  \/ \E r \in Slots : MarkFindSession(r)
  \/ \E r \in Slots : MarkFindClassroom(r)
  \/ \E r \in Slots : MarkFindExisting(r)
  \/ \E r \in Slots : MarkSave(r)

\* with the routes that read a classroom and its active session
NextRead ==
  \/ NextAttendance
  \/ \E r \in Slots : GetClassroom(r)
  \/ \E r \in Slots : ActiveFindSession(r)
  \/ \E r \in Slots : ActiveFindRecords(r)

SpecRead == InitRead /\ [][NextRead]_vars

\* with the route that reads the session history
NextHistory ==
  \/ NextAttendance
  \/ \E r \in Slots : HistoryFindClassroom(r)
  \/ \E r \in Slots : HistoryFindSessions(r)
  \/ \E r \in Slots : HistoryFindRecords(r)

SpecHistory == InitRead /\ [][NextHistory]_vars

\* with the routes that read the session history and one session
NextRecords ==
  \/ NextHistory
  \/ \E r \in Slots : SessionFindSession(r)
  \/ \E r \in Slots : SessionFindRecords(r)

\* a database the server is started on, with one classroom: a1 has created
\* classroom 1, s1 has joined it, and a session of it was started, marked by
\* s1 and ended
InitRecords ==
  /\ users = [u \in {"a1", "s1"} |-> Account(u)]
  /\ classrooms = << [name |-> <<"M">>, joinCode |-> "AAAAAA",
                      createdBy |-> "a1",
                      members |-> << [user |-> "a1", role |-> "admin"],
                                     [user |-> "s1", role |-> "student"] >>] >>
  /\ sessions = << [classroom |-> 1, endTime |-> 0, status |-> "ended",
                    createdBy |-> "a1"] >>
  /\ records = << [session |-> 1, student |-> "s1", status |-> "present"] >>
  /\ reqs = [r \in Slots |-> Idle]
  /\ now = 0
  /\ nreq = 0
  /\ client = NoClient

SpecRecords == InitRecords /\ [][NextRecords]_vars

\* the attendance routes on that database with the direct-mark route the
\* server still exposes
NextLegacy ==
  \/ NextAttendance
  \/ \E r \in Slots : LegacyMarkFindClassroom(r)
  \/ \E r \in Slots : LegacyMarkSave(r)

SpecLegacy == InitRecords /\ [][NextLegacy]_vars

\* the join route on that database
NextJoin ==
  \/ \E r \in Slots : Respond(r)
  \/ \E r \in Slots : JoinFindClassroom(r)
  \/ \E r \in Slots : JoinSave(r)

SpecJoin == InitRead /\ [][NextJoin]_vars

\* the app starts on the database of Init with what an earlier sign-in left
\* in its storage: nothing, or a user and a token the server still accepts
\* or no longer accepts
InitRestore ==
  /\ users = [u \in {"a1", "s1"} |-> Account(u)]
  /\ classrooms = <<>>
  /\ sessions = <<>>
  /\ records = <<>>
  /\ reqs = [r \in Slots |-> Idle]
  /\ now = 0
  /\ nreq = 0
  /\ client \in {[NoClient EXCEPT !.pc = "start"]} \cup
                {[NoClient EXCEPT !.pc = "start", !.token = t, !.stored = u] :
                   t \in {"valid", "invalid"}, u \in {"a1", "s1"}}

\* the app restores its login while other clients log in
NextRestore ==
  \/ \E r \in Slots : RespondOther(r)
  \/ \E r \in Slots : LoginFindUser(r)
  \/ \E r \in Slots : CheckAuthStatus(r)
  \/ CheckAuthNothing
  \/ \E r \in Slots : CheckAuthResponse(r)

SpecRestore == InitRestore /\ [][NextRestore]_vars

\* s1, signed in, opens the view of classroom 1 on the database of InitRead
InitView ==
  /\ users = [u \in {"a1", "a2", "s1"} |-> Account(u)]
  /\ classrooms = << [name |-> <<"M">>, joinCode |-> "AAAAAA",
                      createdBy |-> "a1",
                      members |-> << [user |-> "a1", role |-> "admin"],
                                     [user |-> "s1", role |-> "student"] >>],
                     [name |-> <<"M">>, joinCode |-> "BBBBBB",
                      createdBy |-> "a2",
                      members |-> << [user |-> "a2", role |-> "admin"] >>] >>
  /\ sessions = << [classroom |-> 1, endTime |-> 0, status |-> "ended",
                    createdBy |-> "a1"] >>
  /\ records = << [session |-> 1, student |-> "s1", status |-> "present"] >>
  /\ reqs = [r \in Slots |-> Idle]
  /\ now = 0
  /\ nreq = 0
  /\ client = [NoClient EXCEPT !.token = "valid", !.stored = "s1",
                               !.user = "s1", !.cid = 1, !.pc = "open"]

\* the view and its polling while other clients use the attendance routes
NextView ==
  \/ \E r \in Slots : RespondOther(r)
  \/ \E r \in Slots : StartFindClassroom(r)
  \/ \E r \in Slots : StartFindActive(r)
  \/ \E r \in Slots : StartSave(r)
  \/ \E r \in Slots : EndFindSession(r)
  \/ \E r \in Slots : EndSave(r)
  \/ \E r \in Slots : MarkFindSession(r)
  \/ \E r \in Slots : MarkFindClassroom(r)
  \/ \E r \in Slots : MarkFindExisting(r)
  \/ \E r \in Slots : MarkSave(r)
  \/ \E r \in Slots : ViewLoad(r)
  \/ \E r \in Slots : ActiveFindRecords(r)
  \/ \E r \in Slots : ViewReceive(r)
  \/ \E r \in Slots : PollTick(r)

SpecView == InitView /\ [][NextView]_vars

TypeOK ==
  /\ now \in 0..MaxTime
  /\ nreq \in 0..MaxRequests
  /\ Len(classrooms) <= MaxClassrooms
  /\ Len(sessions) <= MaxSessions

\* ------------------------------------------------------------------ claims
\* slot r takes a step in which its handler (of operation op) replies
Replies(r, op) ==
  /\ reqs[r].pc # "done"
  /\ reqs'[r].pc = "done"
  /\ reqs'[r].op = op

\* slot r takes a step of a handler of operation op
Steps(r, op) == reqs'[r] # reqs[r] /\ reqs'[r].op = op

\* C1: every classroom has at most one session with status active, in every
\* reachable state, concurrent startSession requests included.
C1_AtMostOneActiveSession ==
  \A c \in ClassroomIds : Cardinality(ActiveSessions(c)) <= 1

\* C2: the store holds at most one record per (session, student) pair, in
\* every reachable state, concurrent markPresent requests included.
C2_AtMostOneRecordPerPair ==
  \A i, j \in 1..Len(records) :
    (records[i].session = records[j].session
       /\ records[i].student = records[j].student) => i = j

\* C3: a member student's markPresent on an active session succeeds and
\* creates exactly one record when the pair has no record; a markPresent that
\* starts when the pair already has a record is answered 400 "Attendance
\* already marked" and leaves the records unchanged.
C3_SecondMarkRejected ==
  [][\A r \in Slots :
       LET q == reqs'[r] IN
       (/\ Replies(r, "mark")
        /\ q.sid \in SessionIds
        /\ sessions[q.sid].status = "active"
        /\ RoleOf(q.user) = "student"
        /\ IsMember(classrooms[sessions[q.sid].classroom], q.user))
       => /\ RecordsOf(q.sid, q.user) = {} =>
               /\ q.resp.code = 200
               /\ records' = Append(records, [session |-> q.sid,
                                student |-> q.user, status |-> "present"])
          /\ q.pre.marked =>
               /\ q.resp = [code |-> 400, msg |-> "Attendance already marked"]
               /\ records' = records]_vars

C3_Witness ==
  \E r \in Slots :
    /\ reqs[r].op = "mark" /\ reqs[r].pc = "done"
    /\ reqs[r].pre.marked /\ reqs[r].pre.status = "active"
    /\ reqs[r].resp = [code |-> 400, msg |-> "Attendance already marked"]
    /\ Cardinality(RecordsOf(reqs[r].sid, reqs[r].user)) = 1

C5_RecordOnlyWhileActive ==
  [][records' # records =>
       sessions[records'[Len(records')].session].status = "active"]_vars

\* C6: once a session's status is ended it is ended in every later state.
C6_EndedStaysEnded ==
  [][\A s \in SessionIds :
       sessions[s].status = "ended" => sessions'[s].status = "ended"]_vars

C6_Witness ==
  \E s, s2 \in SessionIds :
    /\ s < s2
    /\ sessions[s].classroom = sessions[s2].classroom
    /\ sessions[s].status = "ended"
    /\ sessions[s2].status = "active"

\* C7: once a session's endTime is set, no later step changes it.
C7_EndTimeImmutable ==
  [][\A s \in SessionIds :
       sessions[s].endTime # NoTime =>
         sessions'[s].endTime = sessions[s].endTime]_vars

\* C8: an admin's endSession that finds its session already ended is answered
\* 400 "Session already ended" and leaves the sessions unchanged.
C8_EndOnEndedRejected ==
  [][\A r \in Slots :
       (/\ Steps(r, "end")
        /\ reqs'[r].pre.status = "ended"
        /\ RoleOf(reqs'[r].user) = "admin")
       => /\ reqs[r].pc = "idle" /\ reqs'[r].pc = "done"
          /\ reqs'[r].resp = [code |-> 400, msg |-> "Session already ended"]
          /\ sessions' = sessions]_vars

C8_Witness ==
  \E r \in Slots :
    /\ reqs[r].op = "end" /\ reqs[r].pc = "done"
    /\ reqs[r].pre.status = "ended"
    /\ sessions[reqs[r].sid].endTime # NoTime
    /\ reqs[r].resp = [code |-> 400, msg |-> "Session already ended"]

\* C9: in every reachable state every classroom's creator is in its members,
\* and every member entry of the creator has member role admin.
C9_CreatorIsAdminMember ==
  \A c \in ClassroomIds :
    LET m == classrooms[c].members IN
    /\ \E i \in 1..Len(m) : m[i].user = classrooms[c].createdBy
    /\ \A i \in 1..Len(m) :
         m[i].user = classrooms[c].createdBy => m[i].role = "admin"

C9_Witness ==
  \E c \in ClassroomIds :
    /\ Len(classrooms[c].members) >= 2
    /\ classrooms[c].members[1] =
         [user |-> classrooms[c].createdBy, role |-> "admin"]

\* C10: in every reachable state no two classrooms share a join code.
C10_JoinCodesUnique ==
  \A c1, c2 \in ClassroomIds :
    classrooms[c1].joinCode = classrooms[c2].joinCode => c1 = c2

C10_Witness ==
  \E r \in Slots :
    /\ reqs[r].op = "create" /\ reqs[r].pc = "done"
    /\ reqs[r].resp.code = 500
    /\ ClassroomsByCode(reqs[r].locCode) # {}

\* C11: a createClassroom whose generated code collides with a stored code
\* retries with a new code and succeeds if a code is free; it fails only when
\* no code is free, and then with Conflict (400/409), never with 500.
C11_CollisionRetried ==
  [][\A r \in Slots :
       (Replies(r, "create") /\ reqs[r].pc = "create_save")
       => IF \E jc \in Codes : ClassroomsByCode(jc) = {}
          THEN /\ reqs'[r].resp.code = 201
               /\ Len(classrooms') = Len(classrooms) + 1
          ELSE /\ reqs'[r].resp.code \in {400, 409}
               /\ classrooms' = classrooms]_vars

\* C12: a joinClassroom by a user who is a member of the classroom when the
\* handler reads it is answered 400 "Already a member of this classroom" and
\* leaves every classroom, its member list included, unchanged.
C12_SecondJoinRejected ==
  [][\A r \in Slots :
       (/\ Steps(r, "join")
        /\ reqs[r].pc = "idle"
        /\ \E c \in ClassroomsByCode(reqs'[r].joinCode) :
              IsMember(classrooms[c], reqs'[r].user))
       => /\ reqs'[r].pc = "done"
          /\ reqs'[r].resp =
                [code |-> 400, msg |-> "Already a member of this classroom"]
          /\ classrooms' = classrooms]_vars

C12_Witness ==
  \E r \in Slots :
    /\ reqs[r].op = "join" /\ reqs[r].pc = "done"
    /\ reqs[r].resp = [code |-> 400, msg |-> "Already a member of this classroom"]
    /\ \E c \in ClassroomsByCode(reqs[r].joinCode) :
         /\ classrooms[c].createdBy # reqs[r].user
         /\ Len(classrooms[c].members) = 2

\* C13: in every reachable state each user appears at most once in the
\* members of a classroom, concurrent joinClassroom requests included.
C13_MembersUniquePerUser ==
  \A c \in ClassroomIds :
    \A i, j \in 1..Len(classrooms[c].members) :
      classrooms[c].members[i].user = classrooms[c].members[j].user => i = j

\* C14: a getClassroom request is answered with the classroom exactly when
\* the requester is among its members; every other request gets the one
\* response 404 "Classroom not found" with no document, the same whether the
\* classroom exists without the requester or does not exist; the store is
\* unchanged.
C14_GetClassroomOnlyForMembers ==
  [][\A r \in Slots :
       Steps(r, "get") =>
         LET q == reqs'[r] IN
         /\ q.pc = "done"
         /\ UNCHANGED <<users, classrooms, sessions, records>>
         /\ IF q.cid \in ClassroomIds /\ IsMember(classrooms[q.cid], q.user)
            THEN q.resp.code = 200 /\ q.body = << classrooms[q.cid] >>
            ELSE q.resp = [code |-> 404, msg |-> "Classroom not found"]
                 /\ q.body = <<>>]_vars

\* a non-member was refused an existing classroom
C14_Witness ==
  \E r \in Slots :
    /\ reqs[r].op = "get" /\ reqs[r].pc = "done"
    /\ reqs[r].cid \in ClassroomIds
    /\ ~IsMember(classrooms[reqs[r].cid], reqs[r].user)
    /\ reqs[r].resp = [code |-> 404, msg |-> "Classroom not found"]
    /\ reqs[r].body = <<>>

\* C15: in every reachable state every record's student has role student and
\* is a member of the classroom of the record's session; a markPresent on an
\* active session by an admin, or by a student who is not a member, is
\* answered 403 and creates no record.
C15_RecordsOfEnrolledStudents ==
  /\ [](\A i \in 1..Len(records) :
          /\ RoleOf(records[i].student) = "student"
          /\ IsMember(classrooms[sessions[records[i].session].classroom],
                      records[i].student))
  /\ [][\A r \in Slots :
          LET q == reqs'[r] IN
          (/\ Replies(r, "mark")
           /\ q.pre.status = "active"
           /\ \/ RoleOf(q.user) # "student"
              \/ ~IsMember(classrooms[sessions[q.sid].classroom], q.user))
          => /\ q.resp.code = 403
             /\ records' = records]_vars

C15_Witness ==
  \E r \in Slots :
    /\ reqs[r].op = "mark" /\ reqs[r].pc = "done"
    /\ reqs[r].pre.status = "active"
    /\ RoleOf(reqs[r].user) = "student"
    /\ ~IsMember(classrooms[sessions[reqs[r].sid].classroom], reqs[r].user)
    /\ reqs[r].resp =
         [code |-> 403, msg |-> "You are not enrolled in this classroom"]

\* C16: a startSession by a requester whose role is not admin is answered
\* 403 and creates no session, whatever classroom id it names; every stored
\* session has a creator with role admin.
C16_NonAdminStartForbidden ==
  /\ [](\A s \in SessionIds : RoleOf(sessions[s].createdBy) = "admin")
  /\ [][\A r \in Slots :
          (Steps(r, "start") /\ RoleOf(reqs'[r].user) # "admin")
          => /\ reqs'[r].pc = "done"
             /\ reqs'[r].resp.code = 403
             /\ sessions' = sessions]_vars

\* C17: an admin's startSession on an existing classroom goes on to insert a
\* session (status active, no endTime) exactly when its query finds no active
\* session of the classroom, also after an earlier session was ended;
\* otherwise it is answered 400 and creates nothing.
C17_StartIffNoActiveSession ==
  [][\A r \in Slots :
       /\ (reqs[r].pc = "start_findActive" /\ reqs'[r] # reqs[r]) =>
            IF ActiveSessions(reqs[r].cid) = {}
            THEN reqs'[r].pc = "start_save" /\ sessions' = sessions
            ELSE /\ reqs'[r].pc = "done"
                 /\ reqs'[r].resp = [code |-> 400,
                       msg |-> "An attendance session is already active"]
                 /\ sessions' = sessions
       /\ (reqs[r].pc = "start_save" /\ reqs'[r] # reqs[r]) =>
            /\ reqs'[r].pc = "done" /\ reqs'[r].resp.code = 200
            /\ sessions' = Append(sessions,
                  [classroom |-> reqs[r].cid, endTime |-> NoTime,
                   status |-> "active", createdBy |-> reqs[r].user])]_vars

C17_Witness ==
  \E r \in Slots :
    /\ reqs[r].op = "start" /\ reqs[r].pc = "done"
    /\ reqs[r].resp.code = 200
    /\ sessions[Len(sessions)].classroom = reqs[r].cid
    /\ sessions[Len(sessions)].status = "active"
    /\ \E s \in SessionIds :
         sessions[s].classroom = reqs[r].cid /\ sessions[s].status = "ended"

\* C18: a getActiveSession request is answered 200 with null exactly when its
\* query finds no active session of the classroom; otherwise it is answered
\* 200 with a session of that classroom read as active and exactly the
\* records of that session; no such request changes the store.
C18_ActiveSessionOrNull ==
  [][\A r \in Slots :
       /\ Steps(r, "active") => UNCHANGED <<users, classrooms, sessions, records>>
       /\ (Steps(r, "active") /\ reqs[r].pc = "idle") =>
            LET q == reqs'[r] IN
            IF ActiveSessions(q.cid) = {}
            THEN q.pc = "done" /\ q.resp.code = 200 /\ q.body = <<>>
            ELSE /\ q.pc = "active_findRecords"
                 /\ q.locDocs[1].id \in ActiveSessions(q.cid)
                 /\ q.locDocs[1].session = sessions[q.locDocs[1].id]
       /\ (reqs[r].pc = "active_findRecords" /\ reqs'[r] # reqs[r]) =>
            LET q == reqs'[r] IN
            /\ q.pc = "done" /\ q.resp.code = 200 /\ Len(q.body) = 1
            /\ q.body[1].id = reqs[r].locDocs[1].id
            /\ q.body[1].session = reqs[r].locDocs[1].session
            /\ q.body[1].session.classroom = q.cid
            /\ q.body[1].session.status = "active"
            /\ q.body[1].records =
                 SelectSeq(records, LAMBDA x : x.session = q.body[1].id)]_vars

\* null for a classroom whose two sessions were both ended, each of them
\* holding a record
C18_Witness ==
  \E r \in Slots :
    /\ reqs[r].op = "active" /\ reqs[r].pc = "done"
    /\ reqs[r].resp.code = 200 /\ reqs[r].body = <<>>
    /\ ActiveSessions(reqs[r].cid) = {}
    /\ Cardinality({s \in SessionIds : sessions[s].classroom = reqs[r].cid
                                        /\ sessions[s].status = "ended"}) = 2
    /\ \E i, j \in 1..Len(records) : records[i].session # records[j].session

\* C19: a listSessionHistory request on an existing classroom goes on to be
\* answered 200 with the classroom's sessions if the requester is an admin,
\* member or not, or a member of the classroom, and is answered 403 with no
\* document otherwise; a reply to a student who is not a member carries no
\* session and no record.
C19_HistoryForAdminsAndMembers ==
  [][\A r \in Slots :
       /\ (Steps(r, "history") /\ reqs[r].pc = "idle"
              /\ reqs'[r].cid \in ClassroomIds) =>
            LET q == reqs'[r] IN
            IF RoleOf(q.user) = "admin" \/ IsMember(classrooms[q.cid], q.user)
            THEN q.pc = "history_findSessions"
            ELSE /\ q.pc = "done" /\ q.body = <<>>
                 /\ q.resp = [code |-> 403,
                       msg |-> "Not authorized to view attendance records"]
       /\ (reqs[r].pc = "history_findSessions" /\ reqs'[r] # reqs[r]) =>
            reqs'[r].pc = "history_findRecords"
       /\ (reqs[r].pc = "history_findRecords" /\ reqs'[r] # reqs[r]) =>
            LET q == reqs'[r] IN
            /\ q.pc = "done" /\ q.resp.code = 200
            /\ \A i \in 1..Len(q.body) : q.body[i].session.classroom = q.cid
       /\ (Steps(r, "history") /\ reqs'[r].cid \in ClassroomIds
              /\ RoleOf(reqs'[r].user) = "student"
              /\ ~IsMember(classrooms[reqs'[r].cid], reqs'[r].user)) =>
            reqs'[r].body = <<>> /\ reqs'[r].locDocs = <<>>]_vars

\* an admin who is not a member was answered the sessions of a classroom,
\* one of them with a record
C19_Witness ==
  \E r \in Slots :
    /\ reqs[r].op = "history" /\ reqs[r].pc = "done"
    /\ reqs[r].cid \in ClassroomIds
    /\ RoleOf(reqs[r].user) = "admin"
    /\ ~IsMember(classrooms[reqs[r].cid], reqs[r].user)
    /\ reqs[r].resp.code = 200
    /\ Len(reqs[r].body) = 2
    /\ \E i \in 1..2 : Len(reqs[r].body[i].records) > 0

\* a student who is not a member was refused a classroom that has a session
C19_WitnessForbidden ==
  \E r \in Slots :
    /\ reqs[r].op = "history" /\ reqs[r].pc = "done"
    /\ reqs[r].cid \in ClassroomIds
    /\ RoleOf(reqs[r].user) = "student"
    /\ ~IsMember(classrooms[reqs[r].cid], reqs[r].user)
    /\ reqs[r].resp.code = 403
    /\ \E s \in SessionIds : sessions[s].classroom = reqs[r].cid

\* C20: a request to any protected route without a token is answered 401
\* "Authentication required" and one with a token that does not verify is
\* answered 403 "Invalid or expired token"; either is answered on arrival
\* with users, classrooms, sessions and records unchanged, and is never at a
\* position of a handler.
C20_BadTokenRejected ==
  /\ [](\A r \in Slots :
          reqs[r].tok \in {"none", "invalid"} => reqs[r].pc = "done")
  /\ [][\A r \in Slots :
          (reqs'[r] # reqs[r] /\ reqs'[r].tok \in {"none", "invalid"}) =>
            /\ reqs'[r].op \in ProtectedRoutes
            /\ reqs'[r].pc = "done"
            /\ reqs'[r].body = <<>>
            /\ reqs'[r].resp =
                 IF reqs'[r].tok = "none"
                 THEN [code |-> 401, msg |-> "Authentication required"]
                 ELSE [code |-> 403, msg |-> "Invalid or expired token"]
            /\ UNCHANGED <<users, classrooms, sessions, records>>]_vars

\* a mark with a token that does not verify was refused while a session is
\* active and joined by a student
C20_Witness ==
  \E r \in Slots :
    /\ reqs[r].op = "mark" /\ reqs[r].tok = "invalid"
    /\ reqs[r].pc = "done"
    /\ reqs[r].resp = [code |-> 403, msg |-> "Invalid or expired token"]
    /\ \E s \in SessionIds :
         /\ sessions[s].status = "active"
         /\ IsMember(classrooms[sessions[s].classroom], "s1")
    /\ records = <<>>

\* C21: a login with a non-empty e-mail and password is answered 400
\* "Invalid email or password" with no token both when no user has the
\* e-mail and when a user has it and the password does not match, so the
\* two responses are identical; users are unchanged.
C21_LoginHidesRegistration ==
  [][\A r \in Slots :
       (Steps(r, "login") /\ reqs'[r].email # <<>> /\ reqs'[r].password # <<>>
          /\ \A u \in UsersByEmail(reqs'[r].email) :
               ~Compare(reqs'[r].password, users[u].password)) =>
         /\ reqs'[r].pc = "done"
         /\ reqs'[r].resp = [code |-> 400, msg |-> "Invalid email or password"]
         /\ reqs'[r].body = <<>>
         /\ users' = users]_vars

\* a login with a registered e-mail and another password was refused, while
\* an e-mail string that no user has can also be sent
C21_Witness ==
  \E r \in Slots :
    /\ reqs[r].op = "login" /\ reqs[r].pc = "done"
    /\ reqs[r].password # <<>>
    /\ \E u \in UsersByEmail(reqs[r].email) :
         ~Compare(reqs[r].password, users[u].password)
    /\ reqs[r].resp = [code |-> 400, msg |-> "Invalid email or password"]
    /\ \E e \in Emails : e # <<>> /\ UsersByEmail(e) = {}

\* C29: a login with an e-mail string and a password that register accepts
\* and with which a user was registered (the user's stored e-mail is the
\* string trimmed and lower-cased, the stored hash is of the password) is
\* answered 200 with that user's id and role.
C29_RegisterLoginRoundTrip ==
  [][\A r \in Slots :
       Steps(r, "login") =>
         \A u \in DOMAIN users :
           (/\ RegisterValid([reqs'[r] EXCEPT !.role = users[u].role])
            /\ users[u].email = NormalEmail(reqs'[r].email)
            /\ Compare(reqs'[r].password, users[u].password)) =>
             /\ reqs'[r].resp.code = 200
             /\ Len(reqs'[r].body) = 1
             /\ reqs'[r].body[1].user.id = u
             /\ reqs'[r].body[1].user.role = users[u].role]_vars

\* C22: every record in the store names one session that exists and has
\* status present, also when requests arrive at the direct-mark route
\* POST /attendance/:classroomId/mark, which never adds a record.
C22_RecordsHaveSessionAndPresent ==
  /\ [](\A i \in 1..Len(records) :
          records[i].session \in SessionIds /\ records[i].status = "present")
  /\ [][\A r \in Slots : Steps(r, "legacyMark") => records' = records]_vars

\* a member's direct mark with a valid status was refused by the save while
\* the store holds a record of a session
C22_Witness ==
  \E r \in Slots :
    /\ reqs[r].op = "legacyMark" /\ reqs[r].pc = "done"
    /\ reqs[r].status \in {"present", "absent", "late"}
    /\ reqs[r].cid \in ClassroomIds
    /\ IsMember(classrooms[reqs[r].cid], reqs[r].user)
    /\ reqs[r].resp.code = 500
    /\ Len(records) > 0

\* C23: a createClassroom by a user whose role is not admin is answered 403
\* and creates no classroom; every classroom's creator has role admin.
C23_NonAdminCreateForbidden ==
  /\ [](\A c \in ClassroomIds : RoleOf(classrooms[c].createdBy) = "admin")
  /\ [][\A r \in Slots :
          (Steps(r, "create") /\ RoleOf(reqs'[r].user) # "admin") =>
            /\ reqs'[r].pc = "done"
            /\ reqs'[r].resp.code = 403
            /\ classrooms' = classrooms]_vars

\* C23, amended: a createClassroom by a user whose role is not admin is
\* answered 400 when its name is empty after trimming and 403 otherwise, and
\* creates no classroom; every classroom's creator has role admin.
C23_NonAdminCreateRejected ==
  /\ [](\A c \in ClassroomIds : RoleOf(classrooms[c].createdBy) = "admin")
  /\ [][\A r \in Slots :
          (Steps(r, "create") /\ RoleOf(reqs'[r].user) # "admin") =>
            /\ reqs'[r].pc = "done"
            /\ reqs'[r].resp =
                 IF Trim(reqs'[r].name) = <<>>
                 THEN [code |-> 400, msg |-> "Classroom name is required"]
                 ELSE [code |-> 403, msg |-> "Only admins can create classrooms"]
            /\ classrooms' = classrooms]_vars

\* a student's create with a name was refused while a classroom exists
C23_Witness ==
  \E r \in Slots :
    /\ reqs[r].op = "create" /\ reqs[r].pc = "done"
    /\ RoleOf(reqs[r].user) = "student"
    /\ Trim(reqs[r].name) # <<>>
    /\ reqs[r].resp.code = 403
    /\ Len(classrooms) = 1

\* the records of session sid in the store are all among rs
AllRecordsOf(sid, rs) ==
  \A k \in 1..Len(records) :
    records[k].session = sid => \E j \in 1..Len(rs) : rs[j] = records[k]

\* C25: every step keeps the records it found, unchanged and in place, and
\* at most appends to them; no step of endSession changes the records; the
\* session history lists every session the classroom has when it is read,
\* and the history and getSession return with each session every record the
\* store holds for it, so the records of an ended session are still returned.
C25_RecordsOnlyGrow ==
  [][/\ Len(records') >= Len(records)
     /\ SubSeq(records', 1, Len(records)) = records
     /\ \A r \in Slots :
          /\ Steps(r, "end") => records' = records
          /\ (reqs[r].pc = "history_findSessions" /\ reqs'[r] # reqs[r]) =>
               {reqs'[r].locDocs[i].id : i \in 1..Len(reqs'[r].locDocs)} =
                 {x \in SessionIds : sessions[x].classroom = reqs[r].cid}
          /\ ((reqs[r].pc = "history_findRecords"
                \/ reqs[r].pc = "session_findRecords") /\ reqs'[r] # reqs[r]) =>
               /\ reqs'[r].pc = "done" /\ reqs'[r].resp.code = 200
               /\ Len(reqs'[r].body) = Len(reqs[r].locDocs)
               /\ \A i \in 1..Len(reqs'[r].body) :
                    /\ reqs'[r].body[i].id = reqs[r].locDocs[i].id
                    /\ AllRecordsOf(reqs'[r].body[i].id,
                                    reqs'[r].body[i].records)]_vars

\* the history returned a session that was started, marked and ended since
\* the server started, with its record
C25_Witness ==
  \E r \in Slots :
    /\ reqs[r].op = "history" /\ reqs[r].pc = "done"
    /\ \E i \in 1..Len(reqs[r].body) :
         /\ reqs[r].body[i].id = 2
         /\ reqs[r].body[i].session.status = "ended"
         /\ Len(reqs[r].body[i].records) > 0

\* getSession returned that session with its record
C25_WitnessSession ==
  \E r \in Slots :
    /\ reqs[r].op = "session" /\ reqs[r].pc = "done" /\ reqs[r].sid = 2
    /\ Len(reqs[r].body) = 1
    /\ reqs[r].body[1].session.status = "ended"
    /\ Len(reqs[r].body[1].records) > 0

\* C26: the save of a joinClassroom appends to the members of the classroom
\* found exactly one member, the requester with member role student, whatever
\* the role of the requester's account, and changes nothing else; no other
\* step of a join changes the store; the only member of a classroom with
\* member role admin is its creator.
C26_JoinAppendsOneStudent ==
  /\ [](\A c \in ClassroomIds : \A i \in 1..Len(classrooms[c].members) :
          classrooms[c].members[i].role = "admin" =>
            classrooms[c].members[i].user = classrooms[c].createdBy)
  /\ [][\A r \in Slots :
          Steps(r, "join") =>
            /\ UNCHANGED <<users, sessions, records>>
            /\ IF reqs[r].pc = "join_save"
               THEN /\ reqs'[r].pc = "done" /\ reqs'[r].resp.code = 200
                    /\ classrooms' =
                         [classrooms EXCEPT ![reqs[r].locCid].members =
                            Append(@, [user |-> reqs[r].user,
                                       role |-> "student"])]
               ELSE classrooms' = classrooms]_vars

\* an admin joined a classroom of another admin and is a student member
C26_Witness ==
  \E r \in Slots :
    /\ reqs[r].op = "join" /\ reqs[r].pc = "done" /\ reqs[r].resp.code = 200
    /\ RoleOf(reqs[r].user) = "admin"
    /\ LET m == classrooms[reqs[r].locCid].members IN
       /\ m[Len(m)] = [user |-> reqs[r].user, role |-> "student"]
       /\ classrooms[reqs[r].locCid].createdBy # reqs[r].user

\* C27: in the earlier server a mark with a valid status goes on to its save
\* exactly when the requester is a member of the classroom, whatever the
\* requester's role and whatever was marked before, and the save appends one
\* attendance document; a non-member's mark is answered 404 and no step of
\* it changes the collection.
C27_EarlierMarkIffMember ==
  [][\A r \in Slots :
       /\ (Steps(r, "attendance") /\ reqs[r].pc = "idle") =>
            /\ records' = records
            /\ IF /\ reqs'[r].cid \in ClassroomIds
                  /\ IsMember(classrooms[reqs'[r].cid], reqs'[r].user)
               THEN reqs'[r].pc = "attendance_save"
               ELSE reqs'[r].pc = "done" /\ reqs'[r].resp.code = 404
       /\ (reqs[r].pc = "attendance_save" /\ reqs'[r] # reqs[r]
              /\ reqs[r].status \in {"present", "absent", "late"}) =>
            /\ reqs'[r].pc = "done" /\ reqs'[r].resp.code = 201
            /\ records' = Append(records,
                  [classroom |-> reqs[r].cid, student |-> reqs[r].user,
                   status |-> reqs[r].status])]_vars

\* the third mark of one member, an admin, on one classroom was accepted and
\* the collection holds the three documents
C27_Witness ==
  \E r \in Slots :
    /\ reqs[r].op = "attendance" /\ reqs[r].pc = "done"
    /\ reqs[r].resp.code = 201
    /\ RoleOf(reqs[r].user) = "admin"
    /\ Len(records) = 3
    /\ \A i \in 1..3 : /\ records[i].student = reqs[r].user
                        /\ records[i].classroom = reqs[r].cid

\* C28: a step in which a request is answered with a 4xx status changes no
\* user, classroom, session or record, and every step that changes one of
\* them answers a request with 200 or 201; so a request answered 4xx wrote
\* nothing in any of its steps.
C28_RejectionsChangeNothing ==
  [][/\ \A r \in Slots :
          (reqs[r].pc # "done" /\ reqs'[r].pc = "done"
             /\ reqs'[r].resp.code \in 400..499) =>
            UNCHANGED <<users, classrooms, sessions, records>>
     /\ ~(UNCHANGED <<users, classrooms, sessions, records>>) =>
          \E r \in Slots : /\ reqs[r].pc # "done" /\ reqs'[r].pc = "done"
                            /\ reqs'[r].resp.code \in {200, 201}]_vars

\* a mark was refused in its third step, as already marked
C28_Witness ==
  \E r \in Slots :
    /\ reqs[r].op = "mark" /\ reqs[r].pc = "done"
    /\ reqs[r].resp.code = 400
    /\ reqs[r].sid \in SessionIds
    /\ sessions[reqs[r].sid].status = "active"
    /\ RecordsOf(reqs[r].sid, reqs[r].user) # {}

\* a register was refused as a conflict while the store holds a classroom
C28_WitnessRegister ==
  \E r \in Slots :
    /\ reqs[r].op = "register" /\ reqs[r].pc = "done"
    /\ reqs[r].resp.code = 409
    /\ classrooms # <<>>

\* C30: when the app starts with a stored user and a stored token the server
\* still accepts, checkAuthStatus ends with that user set in the auth store
\* and the token still in storage; the stored login is cleared only when the
\* token is invalid.
C30_RestoreKeepsValidLogin ==
  [][(client.pc = "verify" /\ client'.pc = "done")
       => IF client.token = "valid"
          THEN /\ client'.user = client.stored
               /\ client'.token = "valid"
               /\ client'.stored = client.stored
          ELSE client.token = "invalid"]_vars

\* C24: while a classroom view is open the client polls the active-session
\* endpoint, so that a change another user makes to the classroom's active
\* session (started, record added, ended) is eventually reflected in the
\* view: whenever the open view differs from what the endpoint answers, its
\* polling interval is set or a fetch of it is under way.
C24_PollingReflectsChanges ==
  (client.pc = "view" /\ client.session \notin ServerViews(client.cid))
    => (client.timer \/ client.slot # 0)

====
